---- MODULE Spec2Model ----
(***************************************************************************)
(* A model of bs4tag.SimpleDoc (src/bs4tag/simpledoc.py): a document       *)
(* builder that keeps a current insertion point (current_tag) over a       *)
(* BeautifulSoup tree while `with tag(...)` scopes are entered and left.   *)
(*                                                                         *)
(* Python strings on which the code works character by character are      *)
(* sequences of one-character strings; attribute keys and tag names are    *)
(* atoms.  The tree is an arena: soup[1] is the BeautifulSoup object and   *)
(* every node created by new_tag / NavigableString / CData is a further    *)
(* entry whose `contents` lists the ids of its children.                   *)
(***************************************************************************)
EXTENDS Integers, Sequences, FiniteSets, TLC

VARIABLES
    soup,         \* the arena of nodes; soup[1] is self.soup
    tags,         \* the SimpleDoc.Tag objects created so far, in creation order;
                  \* given and log record the attributes passed to tag and
                  \* those passed to each attr call on the Tag, classlog the
                  \* calls of add_class, discard_class and toggle_class on it,
                  \* call the attribute arguments of tag as they were passed
    current_tag,  \* self.current_tag: DocumentRoot or the index of a Tag
    nl2br,        \* self._nl2br
    features,     \* self.features: the parser the soup is built with
    withStack,    \* the `with` blocks now open, innermost last
    exc,          \* the exception in flight, "none" when there is none
    lastOp        \* the last leaf operation, or the construction, and its arguments

vars == <<soup, tags, current_tag, nl2br, features, withStack, exc, lastOp>>

(***************************************************************************)
(* Bounds of the exploration.                                              *)
(***************************************************************************)
MaxTags == 2     \* Tag objects created in a run
MaxNodes == 2    \* nodes in the arena besides the BeautifulSoup object (Spec)
MaxLeafNodes == 3  \* the same, in SpecLeaf
MaxLen == 6      \* length of the strings given to cdata
MaxTextLen == 3  \* length of the strings given to text
MaxValues == 2   \* values in one call of text
MaxLineNodes == 3  \* nodes in the arena besides the BeautifulSoup object (SpecLine)
MaxOpsNodes == 2    \* nodes in the arena besides the BeautifulSoup object (SpecOps)
MaxArgs == 2        \* positional, and named, attribute arguments in a call
MaxClassTags == 1   \* Tag objects created in a run (SpecClass)
MaxClassCalls == 3  \* calls of the class helpers that return

(***************************************************************************)
(* Python values.                                                          *)
(***************************************************************************)
PyStr(s) == [t |-> "str", v |-> s]
PyInt(s) == [t |-> "int", v |-> s]      \* v is str() of the number
PyOther == [t |-> "list", v |-> <<>>]   \* a value that is no str, number or tuple
ATTR_NO_VALUE == [t |-> "None", v |-> <<>>]

EmptyDict == [k \in {} |-> ATTR_NO_VALUE]

\* dict.update(d, e): the keys of e override those of d
update(d, e) == e @@ d

\* the insertion point of a new builder
DocumentRoot == 0

\* the arena index of self.soup
SoupNode == 1

RECURSIVE SeqSum(_)
SeqSum(s) == IF s = <<>> THEN 0 ELSE s[1] + SeqSum(Tail(s))

RECURSIVE Flatten(_)
Flatten(ss) == IF ss = <<>> THEN <<>> ELSE ss[1] \o Flatten(Tail(ss))

\* all sequences over S of length at most n
SeqsUpTo(S, n) == UNION {[1..k -> S] : k \in 0..n}

Min(S) == CHOOSE x \in S : \A y \in S : x <= y

(***************************************************************************)
(* Attribute normalisation and escaping (module-level helpers).            *)
(* A positional argument is [t, k, v]: t = "tuple" for a (k, v) pair,      *)
(* t = "str" for a plain string k, anything else for another value.        *)
(* Named arguments are a sequence of [k, v] in the order given.            *)
(***************************************************************************)
Tuple(key, value) == [t |-> "tuple", k |-> key, v |-> value]
Plain(key) == [t |-> "str", k |-> key, v |-> ATTR_NO_VALUE]
BadArg == [t |-> "int", k |-> "", v |-> ATTR_NO_VALUE]
Kw(key, value) == [k |-> key, v |-> value]

\* dict(lst) for a list of (key, value) pairs: a later pair overrides an earlier one
RECURSIVE dict(_)
dict(lst) ==
    IF lst = <<>> THEN EmptyDict
    ELSE LET n == Len(lst)
         IN update(dict(SubSeq(lst, 1, n - 1)), (lst[n].k :> lst[n].v))

\* a variant of attributes_raises: no positional argument is rejected
attributes_accepts_all(args) == FALSE

\* _attributes raises ValueError for an argument that is neither tuple nor str
attributes_raises(args) ==
    \E i \in 1..Len(args) : args[i].t \notin {"tuple", "str"}

\* a variant of kwarg_key: every named argument is stored under its own name
kwarg_key_literal(key) == key

\* the name under which a named argument is stored
kwarg_key(key) == IF key = "klass" THEN "class" ELSE key

\* a variant of attributes: the named arguments are stored first
attributes_named_first(args, kwargs) ==
    LET lst == [i \in 1..Len(args) |->
                   IF args[i].t = "tuple"
                   THEN [k |-> args[i].k, v |-> args[i].v]
                   ELSE [k |-> args[i].k, v |-> ATTR_NO_VALUE]]
        kws == [i \in 1..Len(kwargs) |->
                   [k |-> kwarg_key(kwargs[i].k), v |-> kwargs[i].v]]
    IN update(dict(kws), dict(lst))

\* _attributes(args, kwargs), defined when attributes_raises(args) is false
attributes(args, kwargs) ==
    LET lst == [i \in 1..Len(args) |->
                   IF args[i].t = "tuple"
                   THEN [k |-> args[i].k, v |-> args[i].v]
                   ELSE [k |-> args[i].k, v |-> ATTR_NO_VALUE]]
        kws == [i \in 1..Len(kwargs) |->
                   [k |-> kwarg_key(kwargs[i].k), v |-> kwargs[i].v]]
    IN update(dict(lst), dict(kws))

\* str.replace(old, new) for a one-character old
RECURSIVE replace(_, _, _)
replace(s, old, new) ==
    IF s = <<>> THEN <<>>
    ELSE (IF s[1] = old THEN new ELSE <<s[1]>>) \o replace(Tail(s), old, new)

Amp == <<"&", "a", "m", "p", ";">>
Lt == <<"&", "l", "t", ";">>
Gt == <<"&", "g", "t", ";">>
Quot == <<"&", "q", "u", "o", "t", ";">>

\* attr_escape raises TypeError for a value that is no number and has no replace
attr_escape_raises(s) == s.t \notin {"int", "str"}

attr_escape(s) ==
    IF s.t = "int" THEN PyStr(s.v)
    ELSE PyStr(replace(replace(replace(s.v, "&", Amp), "<", Lt), "\"", Quot))

dict_to_attrs_raises(dct) ==
    \E key \in DOMAIN dct : dct[key] # ATTR_NO_VALUE /\ attr_escape_raises(dct[key])

dict_to_attrs(dct) ==
    [key \in DOMAIN dct |->
        IF dct[key] = ATTR_NO_VALUE THEN ATTR_NO_VALUE ELSE attr_escape(dct[key])]

(***************************************************************************)
(* Nodes of the tree.  made_by records the builder call that created the   *)
(* node; it is read by no operation.                                       *)
(***************************************************************************)
\* the names for which the lxml HTML builder of bs4 sets can_be_empty_element
EmptyElementTags == {"br", "img", "meta"}

Node(kind, name, string, by) ==
    [kind |-> kind, name |-> name, attrs |-> EmptyDict,
     can_be_empty_element |-> (kind = "Tag" /\ name \in EmptyElementTags),
     string |-> string, contents |-> <<>>, made_by |-> by]

\* soup.new_tag(name)
new_tag(name, by) == Node("Tag", name, <<>>, by)

NavigableString(s) == Node("NavigableString", "", s, "text")

CData(s) == Node("CData", "", s, "cdata")

\* the node that receives what is appended at insertion point cur
\* (Tag._append appends to bs4_tag, DocumentRoot._append to the soup)
append_target(cur) == IF cur = DocumentRoot THEN SoupNode ELSE tags[cur].bs4_tag

\* a variant of append_nodes: the new children are put before the existing ones
append_nodes_in_front(arena, at, new) ==
    LET base == Len(arena)
        ids == [i \in 1..Len(new) |-> base + i]
    IN [(arena \o new) EXCEPT ![at].contents = ids \o @]

\* the arena after the nodes `new` are created and appended, in order, to `at`
append_nodes(arena, at, new) ==
    LET base == Len(arena)
        ids == [i \in 1..Len(new) |-> base + i]
    IN [(arena \o new) EXCEPT ![at].contents = @ \o ids]

(***************************************************************************)
(* Calls.  A leaf operation (stag, text, cdata, asis) records itself in    *)
(* lastOp, and so does the construction of the builder:                    *)
(* the operation, the insertion point (cur), the node receiving appended   *)
(* children (at) and the number of children it had (pos) when the call was *)
(* made, the arguments, and the exception the call raised ("none" if it    *)
(* returned).  Any other call on the builder resets lastOp to NoCall.      *)
(***************************************************************************)
Call(op, name, strgs, safe, raised) ==
    [op |-> op, raised |-> raised, cur |-> current_tag, at |-> append_target(current_tag),
     pos |-> Len(soup[append_target(current_tag)].contents),
     name |-> name, strgs |-> strgs, safe |-> safe]

NoCall ==
    [op |-> "none", raised |-> "none", cur |-> DocumentRoot, at |-> SoupNode,
     pos |-> 0, name |-> "", strgs |-> <<>>, safe |-> FALSE]

\* Tag.parent_tag does not exist before __enter__
Unset == -1

\* the parser used when none is asked for
Lxml == <<"l", "x", "m", "l">>

\* SimpleDoc.__init__(nl2br=br_mode) : an empty soup, the insertion point at
\* the root
Construct(br_mode) ==
    /\ soup = <<Node("BeautifulSoup", "[document]", <<>>, "init")>>
    /\ tags = <<>>
    /\ current_tag = DocumentRoot
    /\ nl2br = br_mode
    /\ features = Lxml
    /\ withStack = <<>>
    /\ exc = "none"
    /\ lastOp = NoCall

\* before SimpleDoc(...) is evaluated there is no builder: no soup, no
\* insertion point, no parser
NoBuilder ==
    /\ soup = <<>>
    /\ tags = <<>>
    /\ current_tag = Unset
    /\ nl2br = FALSE
    /\ features = <<>>
    /\ withStack = <<>>
    /\ exc = "none"
    /\ lastOp = NoCall

\* kwargs.get(key, None)
get(kwargs, key) == IF key \in DOMAIN kwargs THEN kwargs[key] ELSE ATTR_NO_VALUE

\* SimpleDoc.__init__ : self.features; args[1] of the code is the second
\* positional argument
init_features(args, kwargs) ==
    LET given == IF 1 < Len(args) THEN args[2] ELSE get(kwargs, "features")
    IN IF given = ATTR_NO_VALUE \/ Len(given.v) = 0 THEN Lxml ELSE given.v

\* a variant of init_raises: stag_end is handed on to a parser that takes it
init_raises_stag_end_accepted(args, kwargs, optimized) ==
    IF 1 < Len(args) THEN "TypeError" ELSE "none"

\* SimpleDoc.__init__ : the exception raised.  The assert is not executed when
\* Python runs optimized (-O); args is a tuple, which supports no item
\* assignment; BeautifulSoup takes no stag_end argument
init_raises(args, kwargs, optimized) ==
    IF "stag_end" \in DOMAIN kwargs /\ ~optimized THEN "AssertionError"
    ELSE IF 1 < Len(args) THEN "TypeError"
    ELSE IF "stag_end" \in DOMAIN kwargs THEN "TypeError"
    ELSE "none"

\* the record of a construction call in lastOp
InitCall(args, kwargs, optimized) ==
    [op |-> "init", raised |-> init_raises(args, kwargs, optimized),
     cur |-> DocumentRoot, at |-> SoupNode, pos |-> 0, name |-> "",
     strgs |-> args, safe |-> optimized, kwargs |-> kwargs]

\* SimpleDoc.__init__(*args, nl2br=br_mode, **kwargs); BeautifulSoup(markup)
\* holds count top-level nodes
SimpleDoc_init(args, kwargs, br_mode, optimized, count) ==
    /\ NoBuilder
    /\ lastOp' = InitCall(args, kwargs, optimized)
    /\ exc' = init_raises(args, kwargs, optimized)
    /\ IF init_raises(args, kwargs, optimized) # "none"
       THEN UNCHANGED <<soup, current_tag, nl2br, features>>
       ELSE /\ features' = init_features(args, kwargs)
            /\ soup' = append_nodes(<<Node("BeautifulSoup", "[document]", <<>>, "init")>>,
                                    SoupNode,
                                    [j \in 1..count |->
                                        Node("Parsed", "", args[1].v, "init")])
            /\ current_tag' = DocumentRoot
            /\ nl2br' = br_mode
    /\ UNCHANGED <<tags, withStack>>

\* a variant of tag: the element is appended at the insertion point when the
\* Tag is made
tag_attaches(tag_name, args, kwargs) ==
    /\ exc = "none"
    /\ lastOp' = NoCall
    /\ IF attributes_raises(args)
       THEN /\ exc' = "ValueError"
            /\ UNCHANGED <<soup, tags>>
       ELSE /\ soup' = append_nodes(soup, append_target(current_tag),
                                    <<new_tag(tag_name, "tag")>>)
            /\ tags' = Append(tags, [name |-> tag_name,
                                     attrs |-> attributes(args, kwargs),
                                     bs4_tag |-> Len(soup) + 1,
                                     parent_tag |-> Unset,
                                     state |-> "new",
                                     given |-> attributes(args, kwargs),
                                     log |-> <<>>,
                                     classlog |-> <<>>,
                                     call |-> [args |-> args, kwargs |-> kwargs]])
            /\ exc' = exc
    /\ UNCHANGED <<current_tag, nl2br, features, withStack>>

\* SimpleDoc.tag : returns a new Tag; Tag.__init__ makes its detached bs4_tag
tag(tag_name, args, kwargs) ==
    /\ exc = "none"
    /\ lastOp' = NoCall
    /\ IF attributes_raises(args)
       THEN /\ exc' = "ValueError"
            /\ UNCHANGED <<soup, tags>>
       ELSE /\ soup' = Append(soup, new_tag(tag_name, "tag"))
            /\ tags' = Append(tags, [name |-> tag_name,
                                     attrs |-> attributes(args, kwargs),
                                     bs4_tag |-> Len(soup) + 1,
                                     parent_tag |-> Unset,
                                     state |-> "new",
                                     given |-> attributes(args, kwargs),
                                     log |-> <<>>,
                                     classlog |-> <<>>,
                                     call |-> [args |-> args, kwargs |-> kwargs]])
            /\ exc' = exc
    /\ UNCHANGED <<current_tag, nl2br, features, withStack>>

\* Tag.__enter__ : the insertion point captured as parent_tag
enter_parent_tag(h) == current_tag

\* a variant of enter_append_to: the element always goes under the soup
enter_append_to_soup(h) == SoupNode

\* Tag.__enter__ : the node to which bs4_tag is appended
enter_append_to(h) == append_target(enter_parent_tag(h))

\* Tag.__enter__ : the insertion point after entry
enter_current_tag(h) == h

\* Tag.__enter__, at the start of a `with` block on Tag h; a Tag is the
\* subject of one `with` statement, as in `with doc.tag(...)`
Tag_enter(h) ==
    /\ exc = "none"
    /\ tags[h].state = "new"
    /\ lastOp' = NoCall
    /\ tags' = [tags EXCEPT ![h].parent_tag = enter_parent_tag(h),
                            ![h].state = "open"]
    /\ current_tag' = enter_current_tag(h)
    /\ soup' = [soup EXCEPT ![enter_append_to(h)].contents =
                               Append(@, tags[h].bs4_tag)]
    /\ withStack' = Append(withStack, [tag |-> h, entry |-> current_tag])
    /\ UNCHANGED <<nl2br, features, exc>>

\* a variant of exit_attrs: the pending attributes are merged on every exit
exit_attrs_always(h, value) ==
    LET node == soup[tags[h].bs4_tag]
    IN IF tags[h].attrs # EmptyDict
       THEN update(node.attrs, tags[h].attrs)
       ELSE node.attrs

\* a variant of exit_attrs: an aborted element keeps what tag was called with
exit_attrs_given(h, value) ==
    LET node == soup[tags[h].bs4_tag]
    IN IF value = "none" /\ tags[h].attrs # EmptyDict
       THEN update(node.attrs, tags[h].attrs)
       ELSE tags[h].given

\* Tag.__exit__ : the attributes of bs4_tag after exit with exception `value`
exit_attrs(h, value) ==
    LET node == soup[tags[h].bs4_tag]
    IN IF value = "none" /\ tags[h].attrs # EmptyDict
       THEN update(node.attrs, tags[h].attrs)
       ELSE node.attrs

\* a variant of exit_current_tag: a normal exit goes back to the root
exit_current_tag_root(h, value) ==
    IF value = "none" THEN DocumentRoot ELSE current_tag

\* a variant of exit_current_tag: the insertion point is never restored
exit_current_tag_stays(h, value) == current_tag

\* Tag.__exit__ : the insertion point after exit with exception `value`
exit_current_tag(h, value) ==
    IF value = "none" THEN tags[h].parent_tag ELSE current_tag

\* Tag.__exit__, at the end of the innermost `with` block, either because its
\* body completed (exc = "none") or because exc propagates out of it;
\* __exit__ returns None, so the exception keeps propagating
Tag_exit(h) ==
    /\ withStack # <<>>
    /\ withStack[Len(withStack)].tag = h
    /\ lastOp' = NoCall
    /\ soup' = [soup EXCEPT ![tags[h].bs4_tag].attrs = exit_attrs(h, exc)]
    /\ current_tag' = exit_current_tag(h, exc)
    /\ tags' = [tags EXCEPT ![h].state =
                               IF exc = "none" THEN "closed" ELSE "aborted"]
    /\ withStack' = SubSeq(withStack, 1, Len(withStack) - 1)
    /\ UNCHANGED <<nl2br, features, exc>>

\* the body of a `with` block raises
Raise ==
    /\ exc = "none"
    /\ withStack # <<>>
    /\ exc' = "Exception"
    /\ UNCHANGED <<soup, tags, current_tag, nl2br, features, withStack, lastOp>>

\* the caller catches the exception in flight (try/except around the call or
\* around the `with` blocks it has propagated out of)
Except ==
    /\ exc # "none"
    /\ exc' = "none"
    /\ UNCHANGED <<soup, tags, current_tag, nl2br, features, withStack, lastOp>>

\* SimpleDoc.attr : the exception raised; current_tag.attrs is looked up before
\* _attributes is called, and on the DocumentRoot the lookup raises
attr_raises(args) ==
    IF current_tag = DocumentRoot THEN "DocumentRootError"
    ELSE IF attributes_raises(args) THEN "ValueError"
    ELSE "none"

\* a variant of attr_update: the new attributes replace the pending ones
attr_update_replace(old, args, kwargs) == attributes(args, kwargs)

\* SimpleDoc.attr : the pending attributes of the Tag that is the insertion point
attr_update(old, args, kwargs) == update(old, attributes(args, kwargs))

\* SimpleDoc.attr
attr(args, kwargs) ==
    /\ exc = "none"
    /\ lastOp' = NoCall
    /\ IF attr_raises(args) # "none"
       THEN /\ exc' = attr_raises(args)
            /\ tags' = tags
       ELSE /\ exc' = exc
            /\ tags' = [tags EXCEPT
                           ![current_tag].attrs = attr_update(@, args, kwargs),
                           ![current_tag].log = Append(@, attributes(args, kwargs))]
    /\ UNCHANGED <<soup, current_tag, nl2br, features, withStack>>

\* SimpleDoc.stag : the element it builds
stag_node(tag_name, args, kwargs) ==
    [new_tag(tag_name, "stag") EXCEPT
        !.attrs = IF args # <<>> \/ kwargs # <<>>
                  THEN update(@, dict_to_attrs(attributes(args, kwargs)))
                  ELSE @,
        !.can_be_empty_element = TRUE]

\* SimpleDoc.stag : the exception raised while the attributes are built
stag_raises(args, kwargs) ==
    IF attributes_raises(args) THEN "ValueError"
    ELSE IF dict_to_attrs_raises(attributes(args, kwargs)) THEN "TypeError"
    ELSE "none"

\* a variant of stag_append_to: the element goes inside a preceding self-closing
\* sibling when there is one
stag_append_to_nested(cur) ==
    LET c == soup[append_target(cur)].contents
    IN IF c # <<>> /\ soup[c[Len(c)]].made_by = "stag"
       THEN c[Len(c)]
       ELSE append_target(cur)

\* SimpleDoc.stag : the node to which the new element is appended
stag_append_to(cur) == append_target(cur)

\* SimpleDoc.stag; when the attributes raise, the element made by new_tag is
\* dropped without having been appended anywhere
stag(tag_name, args, kwargs) ==
    /\ exc = "none"
    /\ lastOp' = Call("stag", tag_name, <<>>, FALSE,
                      stag_raises(args, kwargs))
    /\ IF stag_raises(args, kwargs) # "none"
       THEN exc' = stag_raises(args, kwargs) /\ soup' = soup
       ELSE /\ exc' = exc
            /\ soup' = append_nodes(soup, stag_append_to(current_tag),
                                    <<stag_node(tag_name, args, kwargs)>>)
    /\ UNCHANGED <<tags, current_tag, nl2br, features, withStack>>

\* str.split(sep): the pieces between the leftmost non-overlapping occurrences
RECURSIVE split(_, _)
split(s, sep) ==
    LET n == Len(sep)
        hits == {i \in 1..(Len(s) - n + 1) : SubSeq(s, i, i + n - 1) = sep}
    IN IF hits = {} THEN <<s>>
       ELSE LET i == Min(hits)
            IN <<SubSeq(s, 1, i - 1)>> \o split(SubSeq(s, i + n, Len(s)), sep)

\* a variant of newline_match: only \n separates
newline_match_lf_only(s, i) == IF s[i] = "\n" THEN 1 ELSE 0

\* the length of the match of _newline_rgx (\r?\n) at position i of s, 0 if none
newline_match(s, i) ==
    IF s[i] = "\r" /\ i < Len(s) /\ s[i + 1] = "\n" THEN 2
    ELSE IF s[i] = "\n" THEN 1
    ELSE 0

\* _newline_rgx.split(s)
RECURSIVE newline_rgx_split(_)
newline_rgx_split(s) ==
    LET hits == {i \in 1..Len(s) : newline_match(s, i) > 0}
    IN IF hits = {} THEN <<s>>
       ELSE LET i == Min(hits)
            IN <<SubSeq(s, 1, i - 1)>>
               \o newline_rgx_split(SubSeq(s, i + newline_match(s, i), Len(s)))

\* SimpleDoc.text : the nodes appended for one string
text_nodes(strg, br_mode) ==
    IF br_mode
    THEN LET segs == newline_rgx_split(strg)
             l == Len(segs)
         IN Flatten([i \in 1..(l - 1) |->
                        <<NavigableString(segs[i]), stag_node("br", <<>>, <<>>)>>])
            \o <<NavigableString(segs[l])>>
    ELSE <<NavigableString(strg)>>

\* SimpleDoc.text : the values handled before the first one that is no str
\* (NavigableString and the regex both raise TypeError on such a value)
RECURSIVE text_accepted(_)
text_accepted(strgs) ==
    IF strgs = <<>> \/ strgs[1].t # "str" THEN <<>>
    ELSE <<strgs[1]>> \o text_accepted(Tail(strgs))

\* SimpleDoc.text : all the nodes a call appends
text_appended(strgs, br_mode) ==
    LET ok == text_accepted(strgs)
    IN Flatten([i \in 1..Len(ok) |-> text_nodes(ok[i].v, br_mode)])

\* SimpleDoc.text : the exception raised
text_raises(strgs) ==
    IF Len(text_accepted(strgs)) < Len(strgs) THEN "TypeError" ELSE "none"

\* SimpleDoc.text
text(strgs) ==
    /\ exc = "none"
    /\ lastOp' = Call("text", "", strgs, FALSE, text_raises(strgs))
    /\ soup' = append_nodes(soup, append_target(current_tag),
                            text_appended(strgs, nl2br))
    /\ exc' = text_raises(strgs)
    /\ UNCHANGED <<tags, current_tag, nl2br, features, withStack>>

\* the sequence that ends a CDATA section
Terminator == <<"]", "]", ">">>

\* a variant of cdata_section: the ">" of a terminator is not carried over
cdata_section_drops_gt(s, i, l) ==
    IF i = 0 /\ l = 1 THEN s
    ELSE IF i = l - 1 THEN s
    ELSE s \o <<"]", "]">>

\* SimpleDoc.cdata : the content of section i (counted from 0) of l
cdata_section(s, i, l) ==
    IF i = 0 /\ l = 1 THEN s
    ELSE IF i = 0 THEN s \o <<"]", "]">>
    ELSE IF i = l - 1 THEN <<">">> \o s
    ELSE <<">">> \o s \o <<"]", "]">>

\* a variant of cdata_sections: the string is never scanned
cdata_sections_unscanned(strg, safe) == <<strg>>

\* a variant of cdata_sections: the string is always scanned
cdata_sections_scanned(strg, safe) ==
    LET strgs == split(strg, Terminator)
        l == Len(strgs)
    IN [i \in 1..l |-> cdata_section(strgs[i], i - 1, l)]

\* SimpleDoc.cdata : the contents of the sections appended, in order
cdata_sections(strg, safe) ==
    IF safe THEN <<strg>>
    ELSE LET strgs == split(strg, Terminator)
             l == Len(strgs)
         IN [i \in 1..l |-> cdata_section(strgs[i], i - 1, l)]

\* SimpleDoc.cdata
cdata(strg, safe) ==
    /\ exc = "none"
    /\ lastOp' = Call("cdata", "", <<PyStr(strg)>>, safe, "none")
    /\ soup' = append_nodes(soup, append_target(current_tag),
                            [i \in 1..Len(cdata_sections(strg, safe)) |->
                                CData(cdata_sections(strg, safe)[i])])
    /\ UNCHANGED <<tags, current_tag, nl2br, features, withStack, exc>>

\* a variant of asis_accepted: the arguments are checked before any is appended
asis_accepted_all_or_none(strgs) ==
    IF \E i \in 1..Len(strgs) : strgs[i] = ATTR_NO_VALUE THEN <<>> ELSE strgs

\* a variant of asis_accepted: only the first argument is checked for None
asis_accepted_first_checked(strgs) ==
    IF strgs = <<>> \/ strgs[1] = ATTR_NO_VALUE THEN <<>> ELSE strgs

\* SimpleDoc.asis : the arguments parsed and appended before the first None
RECURSIVE asis_accepted(_)
asis_accepted(strgs) ==
    IF strgs = <<>> \/ strgs[1] = ATTR_NO_VALUE THEN <<>>
    ELSE <<strgs[1]>> \o asis_accepted(Tail(strgs))

\* SimpleDoc.asis : the exception raised
asis_raises(strgs) ==
    IF Len(asis_accepted(strgs)) < Len(strgs) THEN "TypeError" ELSE "none"

\* a top-level node of BeautifulSoup(strg): what the parser makes of the markup
\* is not followed, the node keeps the markup it comes from
Parsed(strg) == Node("Parsed", "", strg, "asis")

\* SimpleDoc.asis; BeautifulSoup(strg) holds any number of top-level nodes,
\* count[i] for the i-th argument, and appending it appends them in order
asis(strgs, count) ==
    /\ exc = "none"
    /\ lastOp' = Call("asis", "", strgs, FALSE, asis_raises(strgs))
    /\ exc' = asis_raises(strgs)
    /\ soup' = append_nodes(soup, append_target(current_tag),
                            Flatten([i \in 1..Len(asis_accepted(strgs)) |->
                                        [j \in 1..count[i] |->
                                            Parsed(asis_accepted(strgs)[i].v)]]))
    /\ UNCHANGED <<tags, current_tag, nl2br, features, withStack>>

\* SimpleDoc.line : the exception that ends the call
line_raises(text_content, args) ==
    IF attributes_raises(args) THEN "ValueError"
    ELSE text_raises(<<text_content>>)

\* SimpleDoc.line : the insertion point after the call; h is the Tag made by
\* self.tag, whose __exit__ receives the exception raised by self.text
line_current_tag(h, text_content) ==
    IF text_raises(<<text_content>>) = "none" THEN current_tag ELSE h

\* SimpleDoc.line : `with self.tag(tag_name, *args, **kwargs):
\* self.text(text_content)`, the four calls it makes taken in order
line(tag_name, text_content, args, kwargs) ==
    /\ exc = "none"
    /\ lastOp' = NoCall
    /\ exc' = line_raises(text_content, args)
    /\ IF attributes_raises(args)
       THEN UNCHANGED <<soup, tags, current_tag>>
       ELSE LET h == Len(tags) + 1
                n == Len(soup) + 1
                given == attributes(args, kwargs)
                raised == text_raises(<<text_content>>)
                \* self.tag : Tag.__init__ makes the detached element
                made == Append(soup, new_tag(tag_name, "tag"))
                \* Tag.__enter__
                entered == [made EXCEPT ![append_target(current_tag)].contents =
                                           Append(@, n)]
                \* self.text, the new Tag being the insertion point
                written == append_nodes(entered, n,
                                        text_appended(<<text_content>>, nl2br))
                \* Tag.__exit__
                exited == IF raised = "none" /\ given # EmptyDict
                          THEN [written EXCEPT ![n].attrs = update(@, given)]
                          ELSE written
            IN /\ soup' = exited
               /\ tags' = Append(tags, [name |-> tag_name,
                                        attrs |-> given,
                                        bs4_tag |-> n,
                                        parent_tag |-> current_tag,
                                        state |-> IF raised = "none"
                                                  THEN "closed" ELSE "aborted",
                                        given |-> given,
                                        log |-> <<>>,
                                        classlog |-> <<>>,
                                        call |-> [args |-> args, kwargs |-> kwargs]])
               /\ current_tag' = line_current_tag(h, text_content)
    /\ UNCHANGED <<nl2br, features, withStack>>

\* the elements whose strings the HTML output formatter of bs4 leaves as they are
CdataContainingTags == {"script", "style"}

\* the output formatter's substitution: one pass over the string in which each
\* of & < > is replaced by its entity
RECURSIVE substitute_xml(_)
substitute_xml(s) ==
    IF s = <<>> THEN <<>>
    ELSE (IF s[1] = "&" THEN Amp
          ELSE IF s[1] = "<" THEN Lt
          ELSE IF s[1] = ">" THEN Gt
          ELSE <<s[1]>>) \o substitute_xml(Tail(s))

\* the node in whose contents node n is, SoupNode standing for none
parent(n) ==
    IF \E m \in 1..Len(soup) : \E i \in 1..Len(soup[m].contents) : soup[m].contents[i] = n
    THEN CHOOSE m \in 1..Len(soup) :
             \E i \in 1..Len(soup[m].contents) : soup[m].contents[i] = n
    ELSE SoupNode

\* SimpleDoc.getvalue : what str(self.soup) gives for the text node n
output_ready(n) ==
    IF soup[parent(n)].name \in CdataContainingTags THEN soup[n].string
    ELSE substitute_xml(soup[n].string)

\* a variant of Kinds: DocumentRootError derives from DocError only
Kinds_root_error_is_doc_error(e) ==
    IF e = "none" THEN {}
    ELSE IF e = "DocumentRootError"
    THEN {"DocumentRootError", "DocError", "Exception"}
    ELSE {e, "Exception"}

\* the classes an exception is an instance of: DocumentRootError derives from
\* DocError and AttributeError, the others are built-in
Kinds(e) ==
    IF e = "none" THEN {}
    ELSE IF e = "DocumentRootError"
    THEN {"DocumentRootError", "DocError", "AttributeError", "Exception"}
    ELSE {e, "Exception"}

\* the characters at which str.split() cuts
Whitespace == {" ", "\t"}

\* str.split() : the maximal runs of characters that are no whitespace
RECURSIVE str_split(_)
str_split(s) ==
    IF s = <<>> THEN <<>>
    ELSE IF s[1] \in Whitespace THEN str_split(Tail(s))
    ELSE LET stops == {i \in 1..Len(s) : s[i] \in Whitespace}
             e == IF stops = {} THEN Len(s) + 1 ELSE Min(stops)
         IN <<SubSeq(s, 1, e - 1)>> \o str_split(SubSeq(s, e, Len(s)))

\* set(iterable)
set(seq) == {seq[i] : i \in 1..Len(seq)}

\* ' '.join(strs) for a sequence of str
RECURSIVE join(_)
join(strs) ==
    IF strs = <<>> THEN <<>>
    ELSE IF Len(strs) = 1 THEN strs[1]
    ELSE strs[1] \o <<" ">> \o join(Tail(strs))

\* the orders in which a set can be iterated
Orders(S) ==
    {f \in [1..Cardinality(S) -> S] : \A i, j \in 1..Cardinality(S) : f[i] = f[j] => i = j}

\* SimpleDoc._get_classes : the exception raised; the DocumentRoot has no attrs,
\* and a class value that is no str has no split
get_classes_raises ==
    IF current_tag = DocumentRoot THEN "DocumentRootError"
    ELSE IF "class" \in DOMAIN tags[current_tag].attrs
            /\ tags[current_tag].attrs["class"].t # "str"
    THEN "AttributeError"
    ELSE "none"

\* SimpleDoc._get_classes
get_classes ==
    IF "class" \notin DOMAIN tags[current_tag].attrs THEN {}
    ELSE set(str_split(tags[current_tag].attrs["class"].v))

\* a variant of set_classes: the attribute is kept, empty, when no class is left
set_classes_keeps_empty(attrs, order) ==
    update(attrs, ("class" :> PyStr(join(order))))

\* SimpleDoc._set_classes : the attributes of the Tag after the classes, iterated
\* in the given order, are stored
set_classes(attrs, order) ==
    IF order # <<>>
    THEN update(attrs, ("class" :> PyStr(join(order))))
    ELSE [k \in (DOMAIN attrs) \ {"class"} |-> attrs[k]]

\* SimpleDoc.toggle_class : the set after classes.add or classes.discard
toggle_classes(classes, elem, active) ==
    IF active THEN classes \cup {elem} ELSE classes \ {elem}

\* the common course of add_class, discard_class and toggle_class: the classes
\* are read, the new set is stored in whatever order the set is iterated
class_call(call, classes_set) ==
    /\ exc = "none"
    /\ lastOp' = NoCall
    /\ IF get_classes_raises # "none"
       THEN exc' = get_classes_raises /\ tags' = tags
       ELSE /\ exc' = exc
            /\ \E order \in Orders(classes_set) :
                  tags' = [tags EXCEPT
                              ![current_tag].attrs = set_classes(@, order),
                              ![current_tag].classlog = Append(@, call)]
    /\ UNCHANGED <<soup, current_tag, nl2br, features, withStack>>

\* SimpleDoc.add_class
add_class(classes) ==
    class_call([op |-> "add_class", classes |-> classes, active |-> TRUE],
               get_classes \cup set(classes))

\* SimpleDoc.discard_class
discard_class(classes) ==
    class_call([op |-> "discard_class", classes |-> classes, active |-> TRUE],
               get_classes \ set(classes))

\* SimpleDoc.toggle_class
toggle_class(elem, active) ==
    class_call([op |-> "toggle_class", classes |-> <<elem>>, active |-> active],
               toggle_classes(get_classes, elem, active))

(***************************************************************************)
(* The arguments of the calls, drawn from small sets, and the calls as     *)
(* the caller makes them.  The arena is bounded by MaxNodes.               *)
(***************************************************************************)
TagNames == {"div", "a"}

StagNames == {"img", "p"}

NoArgs == [args |-> <<>>, kwargs |-> <<>>]

\* the calls of tag: a name and the attribute arguments
TagCalls ==
    { [name |-> "div", args |-> <<>>, kwargs |-> <<>>],
      [name |-> "a", args |-> <<>>, kwargs |-> <<Kw("id", PyStr(<<"x">>))>>],
      [name |-> "a", args |-> <<BadArg>>, kwargs |-> <<>>] }

\* the attribute arguments given to attr
AttrArgs ==
    { [args |-> <<Tuple("id", PyStr(<<"y">>))>>, kwargs |-> <<>>],
      [args |-> <<Tuple("id", PyStr(<<"z">>))>>,
       kwargs |-> <<Kw("klass", PyStr(<<"n">>))>>],
      [args |-> <<BadArg>>, kwargs |-> <<>>] }

\* the attribute arguments given to stag
StagArgs ==
    { NoArgs,
      [args |-> <<>>, kwargs |-> <<Kw("alt", PyStr(<<"&">>))>>] }

TextArgs == { << PyStr(<<"h", "\n">>) >>, << PyInt(<<"7">>) >> }

CdataArgs == { [strg |-> <<"]", "]", ">">>, safe |-> FALSE],
               [strg |-> <<"]", "]", ">">>, safe |-> TRUE] }

\* no leaf has been written yet
Fresh == \A n \in 1..Len(soup) : soup[n].made_by \in {"init", "tag"}

\* there is room in the arena for n more nodes
Room(n) == Len(soup) + n <= 1 + MaxNodes

LeafRoom(n) == Len(soup) + n <= 1 + MaxLeafNodes

\* another Tag may be created
MoreTags == Len(tags) < MaxTags

DoTag == MoreTags /\ Room(1) /\ \E c \in TagCalls : tag(c.name, c.args, c.kwargs)

DoEnter == \E h \in 1..Len(tags) : Tag_enter(h)

DoExit == \E h \in 1..Len(tags) : Tag_exit(h)

\* attr is called with given arguments at most once on each Tag
DoAttr ==
    \E a \in AttrArgs :
        /\ current_tag # DocumentRoot /\ ~attributes_raises(a.args)
               => \A i \in 1..Len(tags[current_tag].log) :
                      tags[current_tag].log[i] # attributes(a.args, a.kwargs)
        /\ attr(a.args, a.kwargs)

DoStag ==
    LeafRoom(1) /\ \E n \in StagNames, a \in StagArgs : stag(n, a.args, a.kwargs)

DoText == \E s \in TextArgs : LeafRoom(Len(text_appended(s, nl2br))) /\ text(s)

DoCdata ==
    \E c \in CdataArgs :
        LeafRoom(Len(cdata_sections(c.strg, c.safe))) /\ cdata(c.strg, c.safe)

WriteText == Room(1) /\ text(<< PyStr(<<"h", "i">>) >>)

\* SimpleDoc() : nl2br defaults to False
Init == Construct(FALSE)

(***************************************************************************)
(* Spec: tag scopes, exceptions and attributes.                            *)
(***************************************************************************)
Next ==
    \/ DoTag
    \/ DoEnter
    \/ DoExit
    \/ Raise
    \/ Except
    \/ DoAttr
    \/ WriteText

Spec == Init /\ [][Next]_vars

(***************************************************************************)
(* SpecLeaf: the leaf operations inside and outside tag scopes opened      *)
(* without attributes.                                                     *)
(***************************************************************************)
OpenTag == MoreTags /\ LeafRoom(1) /\ \E n \in TagNames : tag(n, <<>>, <<>>)

\* a tag opened before anything is written
OpenDiv == Fresh /\ MoreTags /\ tag("div", <<>>, <<>>)

NextLeaf ==
    \/ OpenTag
    \/ DoEnter
    \/ DoExit
    \/ Raise
    \/ Except
    \/ DoStag
    \/ DoText
    \/ DoCdata

SpecLeaf == Init /\ [][NextLeaf]_vars

(***************************************************************************)
(* SpecCdata and SpecText: one call of cdata, or of text, with any         *)
(* argument within the bounds, at the root or inside tag scopes.           *)
(***************************************************************************)
CdataAlphabet == {"]", ">", "a"}

CdataAny ==
    /\ Fresh
    /\ \E s \in SeqsUpTo(CdataAlphabet, MaxLen), safe \in BOOLEAN : cdata(s, safe)

NextCdata ==
    \/ OpenDiv
    \/ DoEnter
    \/ DoExit
    \/ CdataAny

SpecCdata == Init /\ [][NextCdata]_vars

TextAlphabet == {"\n", "\r", "a"}

\* the ways of cutting s into at most n values
RECURSIVE Cuts(_, _)
Cuts(s, n) ==
    {<<s>>} \cup
    (IF n <= 1 THEN {}
     ELSE UNION { { <<SubSeq(s, 1, p)>> \o r :
                      r \in Cuts(SubSeq(s, p + 1, Len(s)), n - 1) } :
                  p \in 0..Len(s) })

TextAny ==
    /\ Fresh
    /\ \E s \in SeqsUpTo(TextAlphabet, MaxTextLen) :
           \E c \in Cuts(s, MaxValues) : text([i \in 1..Len(c) |-> PyStr(c[i])])

\* text(7), text('a', []) : values that are no str
TextOther ==
    /\ Fresh
    /\ \E v \in { << PyInt(<<"7">>) >>, << PyStr(<<"a">>), PyOther >> } : text(v)

\* SimpleDoc(nl2br=...) with either value
InitText == \E b \in BOOLEAN : Construct(b)

NextText ==
    \/ OpenDiv
    \/ DoEnter
    \/ DoExit
    \/ TextAny
    \/ TextOther

SpecText == InitText /\ [][NextText]_vars

(***************************************************************************)
(* SpecLine: tag, attr, stag and line called with attribute arguments in   *)
(* every form, and line with a text that is accepted or not, in a caller   *)
(* that catches no exception: the first one raised propagates out of every *)
(* open `with` block.                                                      *)
(***************************************************************************)
\* the attribute arguments in each form: none, a named argument, a positional
\* (key, value) pair, a positional string, a positional value of another type
ArgForms ==
    { NoArgs,
      [args |-> <<>>, kwargs |-> <<Kw("klass", PyStr(<<"n">>))>>],
      [args |-> <<Tuple("klass", PyStr(<<"n">>))>>, kwargs |-> <<>>],
      [args |-> <<BadArg>>, kwargs |-> <<>>] }

\* the text given to line: a str, None
LineTexts == { PyStr(<<"h", "i">>), ATTR_NO_VALUE }

LineRoom(n) == Len(soup) + n <= 1 + MaxLineNodes

ArgsTag ==
    MoreTags /\ LineRoom(1) /\ \E a \in ArgForms : tag("div", a.args, a.kwargs)

\* attr succeeds at most once on each Tag
ArgsAttr ==
    /\ current_tag # DocumentRoot => tags[current_tag].log = <<>>
    /\ \E a \in ArgForms \ {NoArgs} : attr(a.args, a.kwargs)

ArgsStag ==
    LineRoom(1) /\ \E a \in ArgForms \ {NoArgs} : stag("img", a.args, a.kwargs)

DoLine ==
    /\ MoreTags
    /\ \E t \in LineTexts, a \in ArgForms :
          /\ LineRoom(1 + Len(text_appended(<<t>>, nl2br)))
          /\ line("a", t, a.args, a.kwargs)

NextLine ==
    \/ ArgsTag
    \/ DoEnter
    \/ DoExit
    \/ ArgsAttr
    \/ ArgsStag
    \/ DoLine

SpecLine == Init /\ [][NextLine]_vars

(***************************************************************************)
(* SpecClass: add_class, discard_class and toggle_class on Tags opened     *)
(* with or without a class attribute, and at the root, where the call      *)
(* raises and ends the run.                                                *)
(***************************************************************************)
\* tag('p'), tag('p', klass='b \ta'), tag('p', id='x', klass='a')
ClassTagArgs ==
    { NoArgs,
      [args |-> <<>>, kwargs |-> <<Kw("klass", PyStr(<<"b", " ", "\t", "a">>))>>],
      [args |-> <<>>,
       kwargs |-> <<Kw("id", PyStr(<<"x">>)), Kw("klass", PyStr(<<"a">>))>>] }

\* the class names given to add_class and discard_class
ClassTuples == { << <<"a">> >>, << <<"b">>, <<"c">> >> }

\* the class name given to toggle_class
ToggleNames == { <<"a">> }

ClassTag ==
    Len(tags) < MaxClassTags /\ \E a \in ClassTagArgs : tag("p", a.args, a.kwargs)

\* another class helper may be called
MoreClassCalls ==
    SeqSum([h \in 1..Len(tags) |-> Len(tags[h].classlog)]) < MaxClassCalls

DoAddClass == MoreClassCalls /\ \E c \in ClassTuples : add_class(c)

DoDiscardClass == MoreClassCalls /\ \E c \in ClassTuples : discard_class(c)

DoToggleClass ==
    MoreClassCalls /\ \E e \in ToggleNames, b \in BOOLEAN : toggle_class(e, b)

NextClass ==
    \/ ClassTag
    \/ DoEnter
    \/ DoExit
    \/ DoAddClass
    \/ DoDiscardClass
    \/ DoToggleClass

SpecClass == Init /\ [][NextClass]_vars

(***************************************************************************)
(* SpecAttrs: one Tag made with any attribute arguments within the bounds, *)
(* entered and left, and one self-closing tag written with the arguments   *)
(* of that Tag.                                                            *)
(***************************************************************************)
\* positional arguments: (key, value) pairs, the value a plain string, a
\* string of the characters attr_escape replaces or a number, and plain
\* strings
PositionalArgs ==
    {Tuple(k, v) : k \in {"id", "class"},
                   v \in {PyStr(<<"x">>), PyStr(<<"&", "<", "\"">>), PyInt(<<"7">>)}}
        \cup {Plain(k) : k \in {"id", "class"}}

\* named arguments; one named class can only be passed as **{'class': ...}
NamedArgs == {Kw(k, PyStr(<<"z">>)) : k \in {"id", "klass", "class"}}

\* the named arguments of a call bear different names
DistinctNames(kwargs) ==
    \A i, j \in 1..Len(kwargs) : kwargs[i].k = kwargs[j].k => i = j

AnyTag ==
    /\ tags = <<>>
    /\ \E args \in SeqsUpTo(PositionalArgs, MaxArgs) :
          \E kwargs \in {kw \in SeqsUpTo(NamedArgs, MaxArgs) : DistinctNames(kw)} :
              tag("div", args, kwargs)

\* stag is called once, with the attribute arguments a Tag was made with
AnyStag ==
    /\ \A n \in 1..Len(soup) : soup[n].made_by # "stag"
    /\ \E h \in 1..Len(tags) : stag("img", tags[h].call.args, tags[h].call.kwargs)

NextAttrs ==
    \/ AnyTag
    \/ DoEnter
    \/ DoExit
    \/ AnyStag

SpecAttrs == Init /\ [][NextAttrs]_vars

(***************************************************************************)
(* SpecEscape: one call of text with any string within the bounds over the *)
(* characters that are escaped and those of an entity, at the root or in a *)
(* tag scope.                                                              *)
(***************************************************************************)
EscapeAlphabet == {"&", "<", ">", ";", "a"}

\* a tag opened before anything is written
OpenNamed == Fresh /\ MoreTags /\ \E n \in {"p", "script"} : tag(n, <<>>, <<>>)

EscapeText ==
    /\ Fresh
    /\ \E s \in SeqsUpTo(EscapeAlphabet, MaxTextLen) : text(<<PyStr(s)>>)

NextEscape ==
    \/ OpenNamed
    \/ DoEnter
    \/ DoExit
    \/ EscapeText

SpecEscape == Init /\ [][NextEscape]_vars

(***************************************************************************)
(* SpecOps: every operation of the builder, each with one argument list    *)
(* (asis with three), at the root and inside tag scopes, the caller        *)
(* catching the exceptions.                                                *)
(***************************************************************************)
\* asis('<b>'), asis('<b>', None), asis(None, '<b>')
AsisArgs ==
    { << PyStr(<<"<", "b", ">">>) >>,
      << PyStr(<<"<", "b", ">">>), ATTR_NO_VALUE >>,
      << ATTR_NO_VALUE, PyStr(<<"<", "b", ">">>) >> }

\* the numbers of top-level nodes that the strings of a call may parse to:
\* for each string none, as for blank markup, or one
ParseCounts(strgs) == [1..Len(asis_accepted(strgs)) -> {0, 1}]

OpsRoom(n) == Len(soup) + n <= 1 + MaxOpsNodes

\* nothing has yet been set on the Tag that is the insertion point
Untouched ==
    current_tag # DocumentRoot =>
        tags[current_tag].log = <<>> /\ tags[current_tag].classlog = <<>>

\* a tag name that is no str: the int 5 (no str of this spelling is a name here)
IntName == "int(5)"

\* isinstance(tag_name, str)
IsStr(tag_name) == tag_name # IntName

\* tag('div'), tag(5)
OpsNames == {"div", IntName}

\* the name that is no str is given to the first call of tag only
OpsTag ==
    /\ MoreTags /\ OpsRoom(1)
    /\ \E n \in OpsNames : (n = IntName => tags = <<>>) /\ tag(n, <<>>, <<>>)

OpsAttr == Untouched /\ attr(<<>>, <<Kw("id", PyStr(<<"y">>))>>)

OpsAddClass == Untouched /\ add_class(<< <<"a">> >>)

OpsDiscardClass == Untouched /\ discard_class(<< <<"a">> >>)

OpsToggleClass == Untouched /\ toggle_class(<<"a">>, TRUE)

OpsText == OpsRoom(1) /\ text(<< PyStr(<<"h", "i">>) >>)

OpsStag == OpsRoom(1) /\ stag("img", <<>>, <<>>)

OpsCdata == OpsRoom(1) /\ cdata(<<"x">>, FALSE)

OpsAsis ==
    \E s \in AsisArgs : \E count \in ParseCounts(s) :
        OpsRoom(SeqSum(count)) /\ asis(s, count)

NextOps ==
    \/ OpsTag
    \/ DoEnter
    \/ DoExit
    \/ Except
    \/ OpsAttr
    \/ OpsAddClass
    \/ OpsDiscardClass
    \/ OpsToggleClass
    \/ OpsText
    \/ OpsStag
    \/ OpsCdata
    \/ OpsAsis

SpecOps == Init /\ [][NextOps]_vars

(***************************************************************************)
(* SpecInit: the construction of a builder from any of the argument lists  *)
(* below, in either mode of the interpreter, and raw markup written to     *)
(* the new builder.                                                        *)
(***************************************************************************)
\* the values given as parser: None, '', 'html.parser'
Selectors ==
    {ATTR_NO_VALUE, PyStr(<<>>),
     PyStr(<<"h", "t", "m", "l", ".", "p", "a", "r", "s", "e", "r">>)}

\* (), ('<b>',), ('<b>', selector)
InitArgs ==
    {<<>>, << PyStr(<<"<", "b", ">">>) >>}
        \cup {<< PyStr(<<"<", "b", ">">>), f >> : f \in Selectors}

\* the named arguments: features, stag_end, both or none
InitKwargs ==
    {EmptyDict, [stag_end |-> PyStr(<<">">>)]}
        \cup {[features |-> f] : f \in Selectors}
        \cup {[features |-> f, stag_end |-> PyStr(<<">">>)] : f \in Selectors}

DoInit ==
    \E a \in InitArgs, k \in InitKwargs, b, o \in BOOLEAN :
        \E count \in (IF a = <<>> THEN {0} ELSE {0, 1}) :
            SimpleDoc_init(a, k, b, o, count)

NextInit ==
    \/ DoInit
    \/ soup # <<>> /\ OpsAsis

SpecInit == NoBuilder /\ [][NextInit]_vars

(***************************************************************************)
(* SpecDefer: the Tags of SpecClass, with one call of a class helper, then *)
(* one of attr, on each, bodies that raise and a caller that catches.      *)
(***************************************************************************)
NextDefer ==
    \/ ClassTag
    \/ DoEnter
    \/ DoExit
    \/ Raise
    \/ Except
    \/ ArgsAttr
    \/ OpsAddClass
    \/ OpsDiscardClass
    \/ OpsToggleClass

SpecDefer == Init /\ [][NextDefer]_vars

(***************************************************************************)
(* Properties.                                                             *)
(***************************************************************************)
\* the Tag of the innermost open `with` block, DocumentRoot outside all blocks
Innermost ==
    IF withStack = <<>> THEN DocumentRoot ELSE withStack[Len(withStack)].tag

Aborted(h) == tags[h].state = "aborted"

Closed(h) == tags[h].state = "closed"

\* the ids of the nodes appended by the last leaf operation
Appended ==
    LET c == soup[lastOp.at].contents
    IN SubSeq(c, lastOp.pos + 1, Len(c))

\* s contains sub as a contiguous subsequence
Contains(s, sub) ==
    \E i \in 1..(Len(s) - Len(sub) + 1) : SubSeq(s, i, i + Len(sub) - 1) = sub

\* C1: whenever a `with` block on a Tag is left, normally or by an exception
\* propagating out of it, the insertion point is again the one the block was
\* entered at.
C1_RestoredOnEveryExit ==
    [][Len(withStack') < Len(withStack)
          => current_tag' = withStack[Len(withStack)].entry]_vars

\* C2: as long as no scope has been left by an exception, the insertion point
\* is the Tag of the innermost open scope (the root when none is open) and
\* every open scope was entered at the scope enclosing it; so the insertion
\* point after a scope closes is the one before it opened, and a build that
\* starts at the root ends at the root.
C2_StackBalance ==
    (\A h \in 1..Len(tags) : ~Aborted(h)) =>
        /\ current_tag = Innermost
        /\ \A i \in 1..Len(withStack) :
              withStack[i].entry =
                  (IF i = 1 THEN DocumentRoot ELSE withStack[i - 1].tag)

\* two nested scopes, both closed normally, and the build is back at the root
C2_Witness ==
    /\ withStack = <<>>
    /\ current_tag = DocumentRoot
    /\ \E g, h \in 1..Len(tags) :
          Closed(g) /\ Closed(h) /\ tags[h].parent_tag = g

\* C3: a step that enters the scope of Tag h appends h's element, which bears
\* the name given to tag and was in no child list before, as the last child of
\* the node of the insertion point, changes nothing else in the tree, and makes
\* h the insertion point.
C3_EntryAppendsAndPushes ==
    [][\A h \in 1..Len(tags) :
          (tags[h].state = "new" /\ tags'[h].state = "open") =>
              LET n == tags[h].bs4_tag
              IN /\ soup[n].kind = "Tag"
                 /\ soup[n].name = tags[h].name
                 /\ \A m \in 1..Len(soup) :
                       \A i \in 1..Len(soup[m].contents) : soup[m].contents[i] # n
                 /\ soup' = [soup EXCEPT ![append_target(current_tag)].contents =
                                            Append(@, n)]
                 /\ current_tag' = h]_vars

\* a scope entered where the insertion point already had a child
C3_Witness ==
    \E h \in 1..Len(tags) :
        /\ tags[h].state = "open"
        /\ current_tag = h
        /\ LET c == soup[append_target(tags[h].parent_tag)].contents
           IN Len(c) >= 2 /\ c[Len(c)] = tags[h].bs4_tag

\* a overridden by b: the keys of both, b's value where b has the key
Override(a, b) ==
    [k \in (DOMAIN a) \cup (DOMAIN b) |-> IF k \in DOMAIN b THEN b[k] ELSE a[k]]

RECURSIVE OverrideAll(_, _)
OverrideAll(a, maps) ==
    IF maps = <<>> THEN a ELSE OverrideAll(Override(a, maps[1]), Tail(maps))

\* the attributes of an element change only when its scope exits normally, and
\* an attr call is recorded only for the Tag that is the insertion point
C4_Frame ==
    /\ \A n \in 1..Len(soup) :
          soup'[n].attrs # soup[n].attrs =>
              \E h \in 1..Len(tags) :
                  tags[h].bs4_tag = n /\ tags[h].state = "open" /\ Closed(h)'
    /\ \A h \in 1..Len(tags) : tags'[h].log # tags[h].log => h = current_tag

\* C4: after a scope has exited normally its element's attributes are those
\* given to tag overridden, in call order, by the attribute map of each attr
\* call made while the Tag was the insertion point; no other element's
\* attributes change.
C4_AttrMerged ==
    /\ [](\A h \in 1..Len(tags) :
             Closed(h) =>
                 soup[tags[h].bs4_tag].attrs =
                     OverrideAll(tags[h].given, tags[h].log))
    /\ [][C4_Frame]_vars

\* a closed scope opened with id="x" on which attr(("id","z"), klass="n") and
\* then attr(("id","y")) were called
C4_Witness ==
    \E h \in 1..Len(tags) :
        /\ Closed(h)
        /\ tags[h].given = ("id" :> PyStr(<<"x">>))
        /\ Len(tags[h].log) = 2
        /\ tags[h].log[2] = ("id" :> PyStr(<<"y">>))
        /\ soup[tags[h].bs4_tag].attrs =
               ("id" :> PyStr(<<"y">>)) @@ ("class" :> PyStr(<<"n">>))

\* C5: the exit of a scope by an exception merges nothing into the tree, and
\* the element of a scope left by an exception carries none of the attributes
\* set with attr on its Tag.
C5_AbortSkipsMerge ==
    /\ [](\A h \in 1..Len(tags) :
             Aborted(h) =>
                 \A i \in 1..Len(tags[h].log) :
                     (DOMAIN tags[h].log[i])
                         \cap (DOMAIN soup[tags[h].bs4_tag].attrs) = {})
    /\ [][\A h \in 1..Len(tags) :
             (tags[h].state = "open" /\ Aborted(h)') => soup' = soup]_vars

\* an aborted scope, the exception caught, on whose Tag attr had been called
C5_Witness ==
    \E h \in 1..Len(tags) :
        Aborted(h) /\ tags[h].log # <<>> /\ tags[h].attrs # EmptyDict /\ exc = "none"

\* every child list only grows at its end, and no node leaves the arena
AppendOnly ==
    /\ Len(soup') >= Len(soup)
    /\ \A n \in 1..Len(soup) :
          /\ Len(soup'[n].contents) >= Len(soup[n].contents)
          /\ SubSeq(soup'[n].contents, 1, Len(soup[n].contents)) = soup[n].contents

\* C6: stag leaves the insertion point where it was and appends to it exactly
\* one element, with the given name, flagged can_be_empty_element and without
\* children; an element made by stag never is the insertion point and never
\* gets a child, and what is written later is appended after it.
C6_StagKeepsInsertionPoint ==
    /\ [](/\ (lastOp.op = "stag" /\ lastOp.raised = "none") =>
                /\ current_tag = lastOp.cur
                /\ Len(Appended) = 1
                /\ LET n == soup[Appended[1]]
                   IN /\ n.kind = "Tag"
                      /\ n.name = lastOp.name
                      /\ n.can_be_empty_element
                      /\ n.contents = <<>>
                      /\ n.made_by = "stag"
          /\ \A n \in 1..Len(soup) :
                soup[n].made_by = "stag" =>
                    /\ soup[n].contents = <<>>
                    /\ soup[n].can_be_empty_element
                    /\ n # append_target(current_tag))
    /\ [][AppendOnly]_vars

\* a self-closed element that is not void in HTML, inside a tag scope, followed
\* by a later sibling
C6_Witness ==
    \E p \in 1..Len(soup) :
        /\ p # SoupNode
        /\ Len(soup[p].contents) = 2
        /\ soup[soup[p].contents[1]].made_by = "stag"
        /\ soup[soup[p].contents[1]].name = "p"

\* the nodes appended by the last leaf operation are CDATA sections
AppendedCData == \A i \in 1..Len(Appended) : soup[Appended[i]].kind = "CData"

\* the contents of the nodes appended by the last leaf operation, in order
AppendedStrings == [i \in 1..Len(Appended) |-> soup[Appended[i]].string]

\* C7: after cdata(s, safe=False) the nodes appended are CDATA sections whose
\* contents, concatenated in order, are s.
C7_CdataRoundTrip ==
    (lastOp.op = "cdata" /\ ~lastOp.safe) =>
        /\ Appended # <<>>
        /\ AppendedCData
        /\ Flatten(AppendedStrings) = lastOp.strgs[1].v
        /\ current_tag = lastOp.cur

\* two terminators back to back, at the very start and the very end
C7_Witness ==
    /\ lastOp.op = "cdata"
    /\ ~lastOp.safe
    /\ lastOp.strgs[1].v = Terminator \o Terminator
    /\ Len(Appended) = 3

\* C8: after cdata(s, safe=False) no appended section contains "]]>".
C8_NoTerminatorInSection ==
    (lastOp.op = "cdata" /\ ~lastOp.safe) =>
        \A i \in 1..Len(Appended) : ~Contains(soup[Appended[i]].string, Terminator)

\* a run of "]" before a terminator, followed by an overlapping candidate
C8_Witness ==
    /\ lastOp.op = "cdata"
    /\ ~lastOp.safe
    /\ lastOp.strgs[1].v = <<"]", "]", "]", ">", "]", ">">>
    /\ Len(Appended) = 2

\* C9: after cdata(s, safe=True) exactly one node was appended, a CDATA section
\* whose content is s.
C9_SafeCdataVerbatim ==
    (lastOp.op = "cdata" /\ lastOp.safe) =>
        /\ Len(Appended) = 1
        /\ AppendedCData
        /\ soup[Appended[1]].string = lastOp.strgs[1].v
        /\ current_tag = lastOp.cur

\* safe=True with a string that contains the terminator
C9_Witness ==
    /\ lastOp.op = "cdata"
    /\ lastOp.safe
    /\ Contains(lastOp.strgs[1].v, Terminator)
    /\ lastOp.cur # DocumentRoot

\* the number of separators in s: every match of \r?\n holds exactly one \n
Separators(s) == Cardinality({i \in 1..Len(s) : s[i] = "\n"})

\* s without its separators: every \n, and the \r that immediately precedes one
RECURSIVE WithoutSeparators(_)
WithoutSeparators(s) ==
    IF s = <<>> THEN <<>>
    ELSE IF s[1] = "\n" THEN WithoutSeparators(Tail(s))
    ELSE IF s[1] = "\r" /\ Len(s) >= 2 /\ s[2] = "\n"
         THEN WithoutSeparators(SubSeq(s, 3, Len(s)))
    ELSE <<s[1]>> \o WithoutSeparators(Tail(s))

\* the number of nodes due to the first n values: 2k+1 for k separators
NodesFor(vals, n) ==
    SeqSum([j \in 1..n |-> 2 * Separators(vals[j].v) + 1])

IsText(n) == soup[n].kind = "NavigableString" /\ soup[n].contents = <<>>

IsBreak(n) ==
    /\ soup[n].kind = "Tag"
    /\ soup[n].name = "br"
    /\ soup[n].can_be_empty_element
    /\ soup[n].attrs = EmptyDict
    /\ soup[n].contents = <<>>

\* C10: in newline-to-break mode, text appends for each value, in argument
\* order, k+1 text nodes and k br elements alternating, k being the number of
\* separators of the value, the last one a text node; the text nodes hold no
\* \n and, concatenated, give the value without its separators; the insertion
\* point is unchanged.
C10_NewlineToBreak ==
    (lastOp.op = "text" /\ nl2br /\ lastOp.raised = "none") =>
        LET vals == lastOp.strgs
        IN /\ current_tag = lastOp.cur
           /\ Len(Appended) = NodesFor(vals, Len(vals))
           /\ \A i \in 1..Len(vals) :
                 LET k == Separators(vals[i].v)
                     first == NodesFor(vals, i - 1)
                     chunk == SubSeq(Appended, first + 1, first + 2 * k + 1)
                 IN /\ \A j \in 1..(k + 1) :
                          /\ IsText(chunk[2 * j - 1])
                          /\ \A c \in 1..Len(soup[chunk[2 * j - 1]].string) :
                                soup[chunk[2 * j - 1]].string[c] # "\n"
                    /\ \A j \in 1..k : IsBreak(chunk[2 * j])
                    /\ Flatten([j \in 1..(k + 1) |-> soup[chunk[2 * j - 1]].string])
                           = WithoutSeparators(vals[i].v)

\* text("\r\n", "\n") inside a tag scope: two values, each ending in an empty
\* segment
C10_Witness ==
    /\ lastOp.op = "text"
    /\ nl2br
    /\ lastOp.cur # DocumentRoot
    /\ lastOp.strgs = << PyStr(<<"\r", "\n">>), PyStr(<<"\n">>) >>
    /\ Len(Appended) = 6
    /\ soup[Appended[6]].string = <<>>

\* a step made by a call of line that got as far as creating its Tag
LineStep == Len(tags') = Len(tags) + 1 /\ tags'[Len(tags')].state # "new"

\* the tree with, as the last child of the insertion point, one new element
\* named tag_name, bearing attributes attrs and holding the text nodes of
\* text_content
ScopeTree(tag_name, text_content, attrs) ==
    LET n == Len(soup) + 1
        nodes == text_appended(<<text_content>>, nl2br)
        elem == [new_tag(tag_name, "tag") EXCEPT
                    !.attrs = attrs,
                    !.contents = [i \in 1..Len(nodes) |-> n + i]]
    IN [(soup \o <<elem>> \o nodes) EXCEPT
           ![append_target(current_tag)].contents = Append(@, n)]

\* a line step builds what the scope it stands for builds: the element of the
\* new Tag, holding the text, with the attributes merged if the text was accepted
LineAsScope ==
    [][LineStep =>
          LET h == tags'[Len(tags')]
          IN \E t \in LineTexts :
                soup' = ScopeTree(h.name, t,
                                  IF h.state = "closed" THEN h.given
                                  ELSE EmptyDict)]_vars

\* C11: a call of line builds the tree that a tag scope with one text call
\* builds, and leaves the insertion point where it was before the call.
C11_LineKeepsInsertionPoint ==
    [][LineStep =>
          /\ current_tag' = current_tag
          /\ \E t \in LineTexts :
                soup' = ScopeTree(tags'[Len(tags')].name, t,
                                  tags'[Len(tags')].given)]_vars

\* s[i..j] is a token of s: a maximal run of characters that are no whitespace
IsToken(s, i, j) ==
    /\ i <= j
    /\ \A k \in i..j : s[k] \notin Whitespace
    /\ i = 1 \/ s[i - 1] \in Whitespace
    /\ j = Len(s) \/ s[j + 1] \in Whitespace

\* the token set of the class attribute in an attribute map, empty when the
\* attribute is absent
ClassTokens(attrs) ==
    IF "class" \notin DOMAIN attrs THEN {}
    ELSE LET s == attrs["class"].v
         IN {SubSeq(s, p[1], p[2]) :
                p \in {q \in (1..Len(s)) \X (1..Len(s)) : IsToken(s, q[1], q[2])}}

\* a set of class names after one helper call: union, difference, or
\* membership as asked
AfterClassCall(S, c) ==
    IF c.op = "add_class" THEN S \cup {c.classes[i] : i \in 1..Len(c.classes)}
    ELSE IF c.op = "discard_class"
    THEN S \ {c.classes[i] : i \in 1..Len(c.classes)}
    ELSE IF c.active THEN S \cup {c.classes[1]}
    ELSE S \ {c.classes[1]}

RECURSIVE AfterClassCalls(_, _)
AfterClassCalls(S, calls) ==
    IF calls = <<>> THEN S
    ELSE AfterClassCalls(AfterClassCall(S, calls[1]), Tail(calls))

\* the class attribute in attrs carries exactly the classes S, and is absent
\* when S is empty
CarriesClasses(attrs, S) ==
    /\ ClassTokens(attrs) = S
    /\ "class" \in DOMAIN attrs <=> S # {}

\* C12: once a class helper has been called on a Tag, the classes the Tag holds
\* are those given to tag with the union, difference and membership changes of
\* the helper calls applied in call order, whatever the order in which they
\* were stored, the attribute being absent exactly when no class is left; the
\* other attributes are untouched; and the element of a scope closed normally
\* carries exactly these classes.
C12_ClassSet ==
    \A h \in 1..Len(tags) :
        tags[h].classlog # <<>> =>
            LET S == AfterClassCalls(ClassTokens(tags[h].given), tags[h].classlog)
            IN /\ CarriesClasses(tags[h].attrs, S)
               /\ \A k \in (DOMAIN tags[h].given) \ {"class"} :
                      k \in DOMAIN tags[h].attrs /\ tags[h].attrs[k] = tags[h].given[k]
               /\ Closed(h) => CarriesClasses(soup[tags[h].bs4_tag].attrs, S)

\* the test's sequence in small: opened with class "a", add_class("b", "c"),
\* discard_class("a"), toggle_class("a", True), closed; the three classes are on
\* the element in an order that is not the order of insertion
C12_Witness ==
    \E h \in 1..Len(tags) :
        /\ Closed(h)
        /\ Len(tags[h].classlog) = 3
        /\ tags[h].classlog[1].op = "add_class"
        /\ tags[h].classlog[2].op = "discard_class"
        /\ tags[h].classlog[3].op = "toggle_class"
        /\ DOMAIN soup[tags[h].bs4_tag].attrs = {"id", "class"}
        /\ soup[tags[h].bs4_tag].attrs["id"] = PyStr(<<"x">>)
        /\ soup[tags[h].bs4_tag].attrs["class"] =
               PyStr(<<"c", " ", "a", " ", "b">>)

Max(S) == CHOOSE x \in S : \A y \in S : x >= y

\* the attribute name a named argument stands for
RealName(key) == IF key = "klass" THEN "class" ELSE key

\* m is the attribute map of the arguments: its keys are those of the
\* positional arguments and the names the named arguments stand for; a key
\* given by name has the value of the last named argument standing for it;
\* any other key has the value of its last positional occurrence, a pair
\* giving its value and a plain string the no-value marker
IsAttributeMap(m, args, kwargs) ==
    /\ DOMAIN m = {args[i].k : i \in 1..Len(args)}
                     \cup {RealName(kwargs[i].k) : i \in 1..Len(kwargs)}
    /\ \A key \in DOMAIN m :
          LET named == {i \in 1..Len(kwargs) : RealName(kwargs[i].k) = key}
              positional == {i \in 1..Len(args) : args[i].k = key}
          IN IF named # {} THEN m[key] = kwargs[Max(named)].v
             ELSE IF args[Max(positional)].t = "tuple"
             THEN m[key] = args[Max(positional)].v
             ELSE m[key] = ATTR_NO_VALUE

\* C14: the attribute map a Tag is made with is a map from the keys of the
\* positional arguments and the names of the named arguments; a plain string
\* gives its key the no-value marker, a pair gives its key its value, a later
\* positional occurrence of a key overrides an earlier one, and a named
\* argument overrides the positional arguments with its key.
C14_AttributeMap ==
    \A h \in 1..Len(tags) :
        /\ IsAttributeMap(tags[h].given, tags[h].call.args, tags[h].call.kwargs)
        /\ Closed(h) /\ tags[h].given # EmptyDict
              => soup[tags[h].bs4_tag].attrs = tags[h].given

\* tag('div', ('id', 'x'), 'id', klass='z') closed: id is valueless and class
\* is "z"
C14_Witness ==
    \E h \in 1..Len(tags) :
        /\ Closed(h)
        /\ tags[h].call.args = <<Tuple("id", PyStr(<<"x">>)), Plain("id")>>
        /\ tags[h].call.kwargs = <<Kw("klass", PyStr(<<"z">>))>>
        /\ soup[tags[h].bs4_tag].attrs =
               ("id" :> ATTR_NO_VALUE) @@ ("class" :> PyStr(<<"z">>))

\* klass supplied as a named argument, and as a positional (key, value) pair
NamedAlias == [args |-> <<>>, kwargs |-> <<Kw("klass", PyStr(<<"n">>))>>]

PairAlias == [args |-> <<Tuple("klass", PyStr(<<"n">>))>>, kwargs |-> <<>>]

\* the map m after the attribute key has been given the value "n"
Sets(m, key, old) ==
    /\ DOMAIN m = (DOMAIN old) \cup {key}
    /\ m[key] = PyStr(<<"n">>)
    /\ \A k \in (DOMAIN old) \ {key} : m[k] = old[k]

Malformed(a) == \E i \in 1..Len(a.args) : a.args[i].t \notin {"tuple", "str"}

\* the step is a call of tag, or of stag, with the attribute arguments a
TagOrStag(a) == tag("div", a.args, a.kwargs) \/ stag("img", a.args, a.kwargs)

\* the step is a call of attr with the attribute arguments a
AttrCall(a) == attr(a.args, a.kwargs)

\* the call changed neither the tree nor the insertion point
CallChangedNothing == UNCHANGED <<soup, tags, current_tag, withStack>>

\* C15 as stated: a call of tag, stag or attr with a positional attribute
\* argument that is neither a tuple nor a string raises, at the call, an error
\* that is an AttributeError, and changes neither the tree nor the insertion
\* point.
C15_MalformedRaisesAttributeError ==
    [][\A a \in ArgForms :
          Malformed(a) /\ (TagOrStag(a) \/ AttrCall(a)) =>
              /\ exc = "none" /\ "AttributeError" \in Kinds(exc')
              /\ CallChangedNothing]_vars

\* C15 as amended: such a call of tag or stag, or of attr inside a tag scope,
\* raises a ValueError, which is no AttributeError; attr at the document root
\* raises the root error before it looks at its arguments; in every case the
\* error is raised at the call and neither the tree nor the insertion point
\* changes.
C15_MalformedRaisesValueError ==
    [][\A a \in ArgForms :
          Malformed(a) =>
              /\ TagOrStag(a) \/ (current_tag # DocumentRoot /\ AttrCall(a)) =>
                    /\ exc = "none" /\ exc' = "ValueError"
                    /\ "AttributeError" \notin Kinds(exc')
                    /\ CallChangedNothing
              /\ current_tag = DocumentRoot /\ AttrCall(a) =>
                    /\ exc = "none" /\ exc' = "DocumentRootError"
                    /\ CallChangedNothing]_vars

\* stag called with a malformed argument inside a tag scope that already has
\* a child
C15_Witness ==
    /\ exc = "ValueError"
    /\ lastOp.op = "stag"
    /\ lastOp.raised = "ValueError"
    /\ lastOp.cur # DocumentRoot
    /\ lastOp.pos = 1
    /\ Len(soup[lastOp.at].contents) = 1

\* C16: text returns exactly when each of its values is a string or a number,
\* and otherwise raises a TypeError; outside newline-to-break mode a call that
\* returns has appended one text node for each value, holding the string, or
\* the string form of the number.
C16_TextAcceptsNumbers ==
    lastOp.op = "text" =>
        LET vals == lastOp.strgs
            accepted == \A i \in 1..Len(vals) : vals[i].t \in {"str", "int"}
        IN /\ lastOp.raised = "none" <=> accepted
           /\ ~accepted => "TypeError" \in Kinds(lastOp.raised)
           /\ accepted /\ ~nl2br =>
                 /\ Len(Appended) = Len(vals)
                 /\ \A i \in 1..Len(vals) :
                       IsText(Appended[i]) /\ soup[Appended[i]].string = vals[i].v

\* s with each & replaced by &amp;, then each < by &lt; and each > by &gt;, so
\* that the & of an entity that was produced is not replaced again
Escaped(s) == replace(replace(replace(s, "&", Amp), "<", Lt), ">", Gt)

\* C17: the document gives, for the text node of every string written with
\* text, the string with each & < > replaced by its entity, each character of
\* the string escaped once and no other character changed.
C17_TextEscapedOnce ==
    \A n \in 1..Len(soup) :
        soup[n].kind = "NavigableString" => output_ready(n) = Escaped(soup[n].string)

\* C18: asis raises a TypeError exactly when one of its arguments, at whatever
\* position, is None, and the insertion point after the call is the one before.
C18_AsisRejectsNone ==
    lastOp.op = "asis" =>
        /\ (\E i \in 1..Len(lastOp.strgs) : lastOp.strgs[i] = ATTR_NO_VALUE)
               <=> lastOp.raised # "none"
        /\ lastOp.raised # "none" => "TypeError" \in Kinds(lastOp.raised)
        /\ current_tag = lastOp.cur

\* asis('<b>', None) inside a tag scope: None in second position, after a
\* string that has been appended
C18_Witness ==
    /\ lastOp.op = "asis"
    /\ lastOp.cur # DocumentRoot
    /\ Len(lastOp.strgs) = 2
    /\ lastOp.strgs[2] = ATTR_NO_VALUE
    /\ exc = "TypeError"
    /\ Len(Appended) = 1

\* the step is a call of attr, add_class, discard_class or toggle_class
AttrOrClassCall == OpsAttr \/ OpsAddClass \/ OpsDiscardClass \/ OpsToggleClass

\* the call recorded in lastOp is a write of text, raw markup, a self-closing
\* tag or a CDATA section whose arguments are well formed
WellFormedWrite ==
    /\ lastOp.op \in {"text", "asis", "stag", "cdata"}
    /\ lastOp.op = "asis" =>
           \A i \in 1..Len(lastOp.strgs) : lastOp.strgs[i] # ATTR_NO_VALUE

\* C19: a call of attr, add_class, discard_class or toggle_class made while the
\* insertion point is the document root raises DocumentRootError, which is a
\* DocError and an AttributeError, and changes neither the tree nor the
\* insertion point; a write of text, raw markup, a self-closing tag or a CDATA
\* section made at the root returns, its nodes appended at the top level of the
\* soup.
C19_RootErrors ==
    /\ [][current_tag = DocumentRoot /\ AttrOrClassCall =>
             /\ exc = "none" /\ exc' = "DocumentRootError"
             /\ {"DocError", "AttributeError"} \subseteq Kinds(exc')
             /\ CallChangedNothing]_vars
    /\ [](WellFormedWrite /\ lastOp.cur = DocumentRoot =>
             /\ lastOp.raised = "none"
             /\ lastOp.at = SoupNode
             /\ current_tag = DocumentRoot)

\* a class helper or attr has raised at the root, after a tag scope was closed
\* and its element appended
C19_Witness ==
    /\ exc = "DocumentRootError"
    /\ current_tag = DocumentRoot
    /\ tags # <<>>
    /\ \A h \in 1..Len(tags) : tags[h].state = "closed"
    /\ Len(soup[SoupNode].contents) = 2


\* C20: a call of tag with a name that is no string raises at the call, before
\* an element is created, and changes neither the tree nor the insertion point.
C20_TagValidatesName ==
    [][\A n \in OpsNames :
          ~IsStr(n) /\ tag(n, <<>>, <<>>) =>
              /\ exc = "none" /\ exc' # "none"
              /\ CallChangedNothing]_vars

\* the parser asked for by the construction call recorded in lastOp: the
\* second positional argument or the named argument features, None if neither
Selector ==
    IF Len(lastOp.strgs) = 2 THEN lastOp.strgs[2] ELSE get(lastOp.kwargs, "features")

\* C21: a construction without stag_end, the parser given as second positional
\* argument, as the named argument features, or not at all, succeeds; the
\* builder's parser is the one given, or 'lxml' when none, None or '' is
\* given; the insertion point of the new builder is the root.
C21_ConstructionTakesSelector ==
    (/\ lastOp.op = "init"
     /\ "stag_end" \notin DOMAIN lastOp.kwargs
     /\ ~(Len(lastOp.strgs) = 2 /\ "features" \in DOMAIN lastOp.kwargs)) =>
        /\ lastOp.raised = "none"
        /\ exc = "none"
        /\ soup # <<>>
        /\ features = (IF Selector = ATTR_NO_VALUE \/ Selector.v = <<>>
                       THEN Lxml ELSE Selector.v)
        /\ current_tag = DocumentRoot

\* C22: a construction with the named argument stag_end raises, whatever the
\* other arguments are and in either mode of the interpreter, and leaves no
\* builder: no soup, no parser, no insertion point.
C22_StagEndRejected ==
    (lastOp.op = "init" /\ "stag_end" \in DOMAIN lastOp.kwargs) =>
        /\ lastOp.raised \in {"AssertionError", "TypeError"}
        /\ exc = lastOp.raised
        /\ soup = <<>>
        /\ features = <<>>
        /\ current_tag = Unset

\* SimpleDoc('<b>', features='html.parser', stag_end='>') in optimized mode,
\* where the assert is not executed
C22_Witness ==
    /\ lastOp.op = "init"
    /\ Len(lastOp.strgs) = 1
    /\ DOMAIN lastOp.kwargs = {"features", "stag_end"}
    /\ Len(lastOp.kwargs["features"].v) = 11
    /\ lastOp.safe
    /\ exc = "TypeError"

\* the step is a call of text, stag, cdata or asis
LeafWrite == OpsText \/ OpsStag \/ OpsCdata \/ OpsAsis

\* the nodes made by text, stag, cdata and asis
LeafMade(n) == soup[n].made_by \in {"text", "stag", "cdata", "asis"}

\* among the children of every node, those made by leaf operations stand in
\* the order in which they were made, and no node is the child of two nodes
\* or twice the child of one
ChildrenInOrder ==
    /\ \A p \in 1..Len(soup) : \A i, j \in 1..Len(soup[p].contents) :
           /\ i < j /\ LeafMade(soup[p].contents[i]) /\ LeafMade(soup[p].contents[j])
                  => soup[p].contents[i] < soup[p].contents[j]
           /\ i # j => soup[p].contents[i] # soup[p].contents[j]
    /\ \A p, q \in 1..Len(soup) : \A i \in 1..Len(soup[p].contents) :
           \A j \in 1..Len(soup[q].contents) :
               soup[p].contents[i] = soup[q].contents[j] => p = q

\* C23: a call of text, asis, stag or cdata leaves the insertion point and
\* every existing node as they are, except that the node at the insertion
\* point gets the new nodes, in the order of their making, after all the
\* children it had; so the children made by leaf operations stand, under
\* every node, in the order of the calls that made them.
C23_LeafAppendsLast ==
    /\ [][LeafWrite =>
             LET at == append_target(current_tag)
             IN /\ current_tag' = current_tag
                /\ tags' = tags /\ withStack' = withStack
                /\ Len(soup') >= Len(soup)
                /\ \A n \in 1..Len(soup) : n # at => soup'[n] = soup[n]
                /\ soup'[at] =
                       [soup[at] EXCEPT
                           !.contents = @ \o [i \in 1..(Len(soup') - Len(soup)) |->
                                                 Len(soup) + i]]
                /\ \A n \in (Len(soup) + 1)..Len(soup') :
                       LeafMade(n)' /\ soup'[n].contents = <<>>]_vars
    /\ []ChildrenInOrder

\* cdata has appended its section at the root after the node of an earlier asis
C23_Witness ==
    /\ lastOp.op = "cdata" /\ lastOp.raised = "none"
    /\ lastOp.pos = 1
    /\ Len(soup[lastOp.at].contents) = 2
    /\ soup[soup[lastOp.at].contents[1]].made_by = "asis"
    /\ soup[soup[lastOp.at].contents[2]].kind = "CData"

\* C24: when a `with` block on a Tag is left with no exception in flight, the
\* insertion point is again the one the block was entered at, whatever it was
\* at the end of the body; so it is when a block inside the body was left by
\* an exception that the body caught.
C24_NormalExitRestores ==
    [][\A h \in 1..Len(tags) :
          Tag_exit(h) /\ exc = "none" =>
              current_tag' = withStack[Len(withStack)].entry]_vars

\* the outer block, entered at the root, has been left normally after the
\* inner one was aborted inside it, the insertion point then being the inner
\* Tag, and the exception caught
C24_Witness ==
    /\ Len(tags) = 2
    /\ tags[1].state = "closed" /\ tags[1].parent_tag = DocumentRoot
    /\ tags[2].state = "aborted" /\ tags[2].parent_tag = 1
    /\ withStack = <<>> /\ exc = "none"
    /\ current_tag = DocumentRoot

\* the attributes on the element of Tag h
NodeAttrs(h) == soup[tags[h].bs4_tag].attrs

\* C25: the element of a Tag bears no attribute before its block is left
\* normally, and none if the block is left by an exception; until attr or a
\* class helper is called on it, the Tag holds the attributes tag was called
\* with; once the block is left normally the element bears the attributes the
\* Tag then holds; and the attributes of an element change in no step other
\* than that normal exit.
C25_AttributesDeferred ==
    /\ [](\A h \in 1..Len(tags) :
             /\ tags[h].state \in {"new", "open", "aborted"} => NodeAttrs(h) = EmptyDict
             /\ tags[h].state = "closed" => NodeAttrs(h) = tags[h].attrs
             /\ (tags[h].log = <<>> /\ tags[h].classlog = <<>>) =>
                    tags[h].attrs = tags[h].given)
    /\ [][\A h \in 1..Len(tags) :
             NodeAttrs(h)' # NodeAttrs(h) => Tag_exit(h) /\ exc = "none"]_vars

\* a Tag made with attributes, on which a class helper and attr were called,
\* whose block was left by an exception: it holds attributes, its element,
\* which is in the tree, bears none
C25_Witness ==
    \E h \in 1..Len(tags) :
        /\ tags[h].state = "aborted"
        /\ tags[h].given # EmptyDict
        /\ tags[h].log # <<>> /\ tags[h].classlog # <<>>
        /\ tags[h].attrs # EmptyDict
        /\ NodeAttrs(h) = EmptyDict
        /\ soup[SoupNode].contents = <<tags[h].bs4_tag>>

\* C26: the element of a self-closing tag written with the attribute
\* arguments of a tag call bears the attributes that the element of that tag
\* bears once its block is left normally: the same keys with the same values.
C26_StagStoresAsTag ==
    \A h \in 1..Len(tags) : \A n \in 1..Len(soup) :
        (Closed(h) /\ soup[n].made_by = "stag") => soup[n].attrs = NodeAttrs(h)

\* the number of arguments of asis that stand before its first None
BeforeNone(strgs) ==
    Min({i \in 1..Len(strgs) : strgs[i] = ATTR_NO_VALUE} \cup {Len(strgs) + 1}) - 1

\* C27: asis takes its arguments from left to right: a call whose first None
\* is argument i has, when it raises TypeError, appended at the insertion
\* point the nodes parsed from the arguments before i, in their order, and
\* nothing of argument i and the later ones.
C27_AsisNotAtomic ==
    [][\A s \in AsisArgs : \A count \in [1..BeforeNone(s) -> {0, 1}] :
          asis(s, count) =>
              /\ soup' = append_nodes(soup, append_target(current_tag),
                                      Flatten([k \in 1..BeforeNone(s) |->
                                                  [j \in 1..count[k] |-> Parsed(s[k].v)]]))
              /\ BeforeNone(s) < Len(s) => exc' = "TypeError"
              /\ current_tag' = current_tag]_vars

\* asis('<b>', None) at the root has raised, the node of '<b>' appended
C27_Witness ==
    /\ lastOp.op = "asis" /\ lastOp.cur = DocumentRoot
    /\ Len(lastOp.strgs) = 2 /\ lastOp.strgs[2] = ATTR_NO_VALUE
    /\ exc = "TypeError"
    /\ Len(Appended) = 1
    /\ soup[Appended[1]].string = lastOp.strgs[1].v

\* node n is in the child list of some node
Attached(n) ==
    \E m \in 1..Len(soup) : \E i \in 1..Len(soup[m].contents) : soup[m].contents[i] = n

\* C28: a call of tag leaves every node and the insertion point as they are
\* and the new element in no child list; an element is in the tree exactly
\* when its Tag has been entered, under the node of the insertion point at
\* which it was entered; and entering a Tag puts its element after all the
\* children present, so sibling elements stand in the order of the entries.
C28_AttachedAtEntry ==
    /\ [][Len(tags') > Len(tags) =>
             /\ current_tag' = current_tag /\ withStack' = withStack
             /\ \A n \in 1..Len(soup) : soup'[n] = soup[n]
             /\ \A m \in 1..Len(soup') : \A i \in 1..Len(soup'[m].contents) :
                    soup'[m].contents[i] # tags'[Len(tags')].bs4_tag]_vars
    /\ [](\A h \in 1..Len(tags) :
             /\ tags[h].state = "new" <=> ~Attached(tags[h].bs4_tag)
             /\ tags[h].state # "new" =>
                    \E i \in 1..Len(soup[append_target(tags[h].parent_tag)].contents) :
                        soup[append_target(tags[h].parent_tag)].contents[i] = tags[h].bs4_tag)
    /\ [][\A h \in 1..Len(tags) :
             (tags[h].state = "new" /\ tags'[h].state = "open") =>
                 LET c == soup'[append_target(current_tag)].contents
                 IN /\ Len(c) = Len(soup[append_target(current_tag)].contents) + 1
                    /\ c[Len(c)] = tags[h].bs4_tag]_vars

\* two Tags made one after the other and entered at the root in the other
\* order: the element of the second stands before that of the first
C28_Witness ==
    /\ Len(tags) = 2
    /\ tags[1].parent_tag = DocumentRoot /\ tags[2].parent_tag = DocumentRoot
    /\ tags[1].state = "open" /\ tags[2].state = "closed"
    /\ soup[SoupNode].contents = <<tags[2].bs4_tag, tags[1].bs4_tag>>

====
